---- MODULE Spec2Model ----
(***************************************************************************)
(* Session negotiation of src/src/useWebRTC.ts (the useWebRTC hook) over   *)
(* the REST client of src/src/api.ts.                                      *)
(*                                                                         *)
(* Every call of join / publishTracks / subscribeTo / leave is an async    *)
(* function: it runs synchronously up to its first await and is resumed    *)
(* once per await.  A call occupies one slot of `calls`; its field `at`    *)
(* names the promise it is suspended on.  One action models the code       *)
(* between two consecutive awaits of one call.                             *)
(***************************************************************************)
EXTENDS Integers, Sequences, FiniteSets, TLC

\* ---------------------------------------------------------------- bounds
MaxCalls == 3
MaxInFlight == 2
MaxAppends == 103
MaxNewStreams == 3
MaxLiveCalls == 2

\* the calls that can be suspended at the same time
Calls == 1..MaxInFlight

\* ------------------------------------------------------- text as char seqs
\* JavaScript strings are modelled as sequences of one-character strings so
\* that template literals and startsWith are computed, not assumed.
AUDIO == <<"a","u","d","i","o">>
VIDEO == <<"v","i","d","e","o">>
UNKNOWN == <<"u","n","k","n","o","w","n">>
NULLTEXT == <<"n","u","l","l">>
DASH == <<"-">>

\* The JavaScript value null where a string is expected (transceiver.mid
\* before negotiation, sender.track of a receive-only transceiver).
NullStr == <<"<null>">>

Digit(n) == <<"0","1","2","3","4","5","6","7","8","9">>[n + 1]

RECURSIVE ToStr(_)
ToStr(n) == IF n < 10 THEN <<Digit(n)>> ELSE ToStr(n \div 10) \o <<Digit(n % 10)>>

\* `${v}` inside a template literal
Template(v) == IF v = NullStr THEN NULLTEXT ELSE v

\* v || alt
OrElse(v, alt) == IF v = NullStr \/ v = <<>> THEN alt ELSE v

\* name.startsWith(prefix)
StartsWith(name, prefix) ==
    /\ Len(name) >= Len(prefix)
    /\ SubSeq(name, 1, Len(prefix)) = prefix

\* ------------------------------------------------------------ environment
DefaultIce == <<"stun:stun.cloudflare.com:3478">>

\* ice_servers values the backend may return from join
BackendIce ==
    { [isArray |-> TRUE,  items |-> <<>>],
      [isArray |-> TRUE,  items |-> <<"turn:backend">>],
      [isArray |-> FALSE, items |-> <<>>] }

SessionIds == {"s1"}
RemoteSessionIds == {"s2"}
RemoteStreamIds == {"ms1"}

\* ids of the streams the track events of SpecOnTrack carry
EventStreamIds == {"ms1", "ms2", "ms3", "ms4", "ms5"}

\* a track event: event.streams and the kind of event.track
TrackEvent(streamIds, kind) ==
    [streams |-> [i \in 1..Len(streamIds) |-> [id |-> streamIds[i]]], track |-> kind]

\* the trackNames a caller passes to subscribeTo: a video name, an audio
\* name, a name with neither prefix, and a name given twice
TrackNameLists ==
    { << VIDEO \o DASH \o <<"1">>, AUDIO \o DASH \o <<"0">>, <<"c","a","m">>,
         VIDEO \o DASH \o <<"1">> >> }

\* which of the requested tracks the backend reports as errored in res.tracks
\* of a subscribe response: none, or the second one
ErroredTracks == { {}, {2} }

\* res.tracks of a subscribe response to the request `req`
BackendTracks(req, errored) ==
    [i \in 1..Len(req) |->
        [trackName |-> req[i].trackName,
         errorCode |-> IF i \in errored THEN "NOT_FOUND" ELSE "",
         errorDescription |-> IF i \in errored THEN "track not found" ELSE ""]]

\* tracks of the stream getUserMedia({audio: true, video: true}) resolves to
CaptureKinds == <<AUDIO, VIDEO>>

VARIABLES
    pcRef,              \* pcRef.current: 0 (null) or an index into pcs
    iceServersRef,      \* iceServersRef.current
    localStreamRef,     \* localStreamRef.current: 0 (null) or an index into streams
    state,              \* the RoomState held by useState
    pcs,                \* every RTCPeerConnection constructed so far
    streams,            \* every MediaStream getUserMedia resolved to so far
    calls,              \* the calls that are suspended, one per slot
    invoked,            \* number of calls invoked so far
    returned,           \* what the last step delivered to a caller, if it settled a call
    afterLeave,         \* history: a leave has returned, no join or leave was invoked since
    logs                \* the log buffer held by useState

vars == <<pcRef, iceServersRef, localStreamRef, state, pcs, streams, calls,
          invoked, returned, afterLeave, logs>>

\* ------------------------------------------------------------------ state
InitialState ==
    [sessionId |-> "", room |-> "", iceServers |-> <<>>,
     localStream |-> 0, remoteStreams |-> {}]

\* the fields of a publish / subscribe response that the code reads after the
\* await: answer_sdp and requires_immediate_renegotiation
NoRes == [received |-> FALSE, answer_sdp |-> FALSE, renego |-> FALSE, tracks |-> <<>>]

\* res.ice_servers when the response carries none (or no response yet)
NoIce == [isArray |-> FALSE, items |-> <<>>]

IdleCall ==
    [op |-> "none", at |-> "none", status |-> "idle", err |-> "",
     stream |-> 0, pc |-> 0, offer |-> 0,
     remoteSessionId |-> "", trackNames |-> <<>>,
     req |-> <<>>, res |-> NoRes,
     stale |-> FALSE, owed |-> 0, closedPc |-> 0,
     ice_servers |-> NoIce, re |-> "none", logged |-> "", trackErrors |-> <<>>,
     requests |-> <<>>, recvOnlyBefore |-> {}]

\* what a settling call delivers to its caller; the op "none" when the step
\* settled no call
Summary(call) ==
    [op |-> call.op, status |-> call.status, err |-> call.err,
     res |-> call.res, owed |-> call.owed,
     ice_servers |-> call.ice_servers, re |-> call.re, logged |-> call.logged,
     trackErrors |-> call.trackErrors, requests |-> call.requests,
     stream |-> call.stream, closedPc |-> call.closedPc]

Init ==
    /\ pcRef = 0
    /\ iceServersRef = <<>>
    /\ localStreamRef = 0
    /\ state = InitialState
    /\ pcs = <<>>
    /\ streams = <<>>
    /\ calls = [c \in Calls |-> IdleCall]
    /\ invoked = 0
    /\ returned = Summary(IdleCall)
    /\ afterLeave = FALSE
    /\ logs = <<>>

\* -------------------------------------------------------------------- log
\* The buffer is written by every handler and read by none.  The session
\* specification keeps, of what a call logs, the entry of its catch block
\* (field `logged`) and the track errors (field `trackErrors`), and leaves
\* the buffer as it is; the buffer is specified on its own by SpecLog.
LogKeep == 99

\* prev.slice(-k) for k > 0
SliceLast(prev, k) ==
    IF Len(prev) <= k THEN prev ELSE SubSeq(prev, Len(prev) - k + 1, Len(prev))

\* an append that never drops an entry
LogAppendUnbounded(prev, entry) == Append(prev, entry)

\* setLogs((prev) => [...prev.slice(-99), entry])
LogAppend(prev, entry) == SliceLast(prev, LogKeep) \o <<entry>>

\* number of entries appended so far; entries are stamped with it
Appended == IF logs = <<>> THEN 0 ELSE logs[Len(logs)].time

LogMessages == {"Joining room..."}

\* log(msg)
Log(msg) ==
    /\ Appended < MaxAppends
    /\ logs' = LogAppend(logs, [time |-> Appended + 1, msg |-> msg])
    /\ UNCHANGED <<pcRef, iceServersRef, localStreamRef, state, pcs, streams,
                   calls, invoked, returned, afterLeave>>

NextLog == \E msg \in LogMessages : Log(msg)

SpecLog == Init /\ [][NextLog]_vars

\* ---------------------------------------------------------- call plumbing
Pending(c) == calls[c].status = "pending"

InFlight == {c \in Calls : Pending(c)}

\* a negotiation call (publishTracks / subscribeTo) that has not settled
Negotiating(c) == Pending(c) /\ calls[c].op \in {"publishTracks", "subscribeTo"}

\* a call takes the lowest free slot
CanInvoke(c) ==
    /\ calls[c].status = "idle"
    /\ \A d \in Calls : d < c => calls[d].status # "idle"

\* the caller of Spec makes at most MaxCalls calls
WithinMaxCalls == invoked < MaxCalls

\* the call in slot c settles as `settled` and frees its slot
Settle(c, settled) ==
    /\ calls' = [calls EXCEPT ![c] = IdleCall]
    /\ returned' = Summary(settled)
    /\ UNCHANGED logs

\* the call in slot c goes on as `call`, or settles when `call` is settled
Proceed(c, call) ==
    IF call.status = "pending"
    THEN /\ calls' = [calls EXCEPT ![c] = call]
         /\ returned' = Summary(IdleCall)
         /\ UNCHANGED logs
    ELSE Settle(c, call)

\* a continuation that runs only when no other call is suspended
AtInTurn(c, op, at) ==
    /\ Pending(c) /\ calls[c].op = op /\ calls[c].at = at
    /\ \A d \in Calls : d # c => ~Pending(d)

\* call c is suspended on the promise `at` of operation op; the promise
\* settles, and the call is resumed, whatever the other calls are doing
At(c, op, at) == Pending(c) /\ calls[c].op = op /\ calls[c].at = at

Started(c, op, at) ==
    [calls[c] EXCEPT !.op = op, !.at = at, !.status = "pending"]

\* the call sends the backend request `name` and awaits its response
Request(call, name) == [call EXCEPT !.at = name, !.requests = Append(@, name)]

Resolved(call) == [call EXCEPT !.status = "resolved", !.at = "done"]

\* the message prefix a catch block logs
CatchLog(op) ==
    CASE op = "join" -> "Join failed"
      [] op = "publishTracks" -> "Publish failed"
      [] op = "subscribeTo" -> "Subscribe failed"
      [] OTHER -> "Leave failed"

\* a catch block that rethrows without logging
RethrowUnlogged(call, e) == [call EXCEPT !.status = "rejected", !.at = "done", !.err = e]

\* the catch blocks of join, publishTracks and subscribeTo: log, then rethrow
Rethrow(call, e) ==
    [call EXCEPT !.status = "rejected", !.at = "done", !.err = e,
                 !.logged = CatchLog(call.op)]

\* ------------------------------------------------------------------- api
\* request(): fetch, then res.json(), then throw when !res.ok.  The promise
\* rejects when fetch rejects, when the body is not JSON, or on a non-2xx
\* status; otherwise it resolves to the parsed body.
RequestOutcomes == {"ok", "fetchError", "httpError"}

RequestFails(outcome) == outcome # "ok"

\* ------------------------------------------- the connection primitive
\* One RTCPeerConnection.  closeCalls counts the invocations of close();
\* the instance is closed once closeCalls > 0.  A closed connection keeps no
\* negotiation state: its transceivers are stopped and every later step on
\* it rejects, so nothing of it but closeCalls is kept.
NewPC(iceServers) ==
    [iceServers |-> iceServers, closeCalls |-> 0, transceivers |-> <<>>,
     localDescription |-> 0, hasRemote |-> FALSE]

IsClosed(p) == pcs[p].closeCalls > 0

ClosePC(ps, p) ==
    [ps EXCEPT ![p] = [NewPC(<<>>) EXCEPT !.closeCalls = ps[p].closeCalls + 1]]

\* pc.addTrack(track, stream) on a connection without a reusable transceiver
AddTrack(pc, kind) ==
    [pc EXCEPT !.transceivers =
        Append(@, [kind |-> kind, mid |-> NullStr, senderTrack |-> kind,
                   direction |-> "sendrecv"])]

\* pc.addTransceiver(kind, {direction: "recvonly"})
AddTransceiver(pc, kind) ==
    [pc EXCEPT !.transceivers =
        Append(@, [kind |-> kind, mid |-> NullStr, senderTrack |-> NullStr,
                   direction |-> "recvonly"])]

\* createOffer(): the offer has one media section per transceiver that
\* exists when it is created; it is modelled by their number.
CreateOffer(pc) == Len(pc.transceivers)

\* setLocalDescription(offer): every transceiver that has a media section in
\* the offer and no mid yet is given the index of its section as mid.
SetLocalDescription(pc, offer) ==
    [pc EXCEPT !.localDescription = offer,
               !.transceivers =
                   [i \in 1..Len(@) |->
                       IF i <= offer /\ @[i].mid = NullStr
                       THEN [@[i] EXCEPT !.mid = ToStr(i - 1)]
                       ELSE @[i]]]

\* setRemoteDescription(answer)
SetRemoteDescription(pc) == [pc EXCEPT !.hasRemote = TRUE]

\* Outcomes of an awaited connection step.  A step on a closed connection
\* rejects (InvalidStateError); on an open one it may succeed or reject.
PcStepOutcomes(p) == IF IsClosed(p) THEN {"fail"} ELSE {"ok", "fail"}

\* --------------------------------------------------------------- createPC
\* createPC without the clean-up of the existing connection
createPCNoClose(ps, ref, iceServers) ==
    [pcs |-> Append(ps, NewPC(iceServers)), pcRef |-> Len(ps) + 1]

createPC(ps, ref, iceServers) ==
    LET closedOld == IF ref # 0 THEN ClosePC(ps, ref) ELSE ps
    IN  [pcs |-> Append(closedOld, NewPC(iceServers)),
         pcRef |-> Len(ps) + 1]

\* pc.ontrack: the handler installed by createPC
MapSet(m, k, v) == {e \in m : e.key # k} \cup {[key |-> k, value |-> v]}

\* new MediaStream([event.track]): a stream with an id no other stream has;
\* the n-th stream constructed for the map m
Constructed(m) == Cardinality({e \in m : e.key \notin EventStreamIds})

NewMediaStream(m) == [id |-> "new" \o ToString(Constructed(m) + 1)]

\* event.streams[0] || new MediaStream([event.track])
EventStream(event, m) ==
    IF Len(event.streams) > 0 THEN event.streams[1] ELSE NewMediaStream(m)

\* a handler that files the stream under the remote session id
EventStreamKeyBySession(stream) == "s2"

\* the key of `updated.set(stream.id, stream)`
EventStreamKey(stream) == stream.id

\* an updater that does not spread the previous state
OnTrackUpdateFromInitial(s, stream) ==
    [InitialState EXCEPT !.remoteStreams = MapSet(s.remoteStreams, EventStreamKey(stream), stream)]

\* the updater handed to setState by the handler
OnTrackUpdate(s, stream) ==
    [s EXCEPT !.remoteStreams = MapSet(@, EventStreamKey(stream), stream)]

OnTrack(p, event) ==
    /\ p \in 1..Len(pcs)
    /\ ~IsClosed(p)
    /\ pcs[p].hasRemote
    /\ Len(event.streams) = 0 => Constructed(state.remoteStreams) < MaxNewStreams
    /\ state' = OnTrackUpdate(state, EventStream(event, state.remoteStreams))
    /\ returned' = Summary(IdleCall)
    /\ UNCHANGED <<pcRef, iceServersRef, localStreamRef, pcs, streams, calls,
                   afterLeave, invoked, logs>>

\* ------------------------------------------------------------------- join
\* join, up to `await api.joinRoom(roomId)`
Join(c) ==
    /\ CanInvoke(c)
    /\ Proceed(c, Request(Started(c, "join", "joinRoom"), "joinRoom"))
    /\ invoked' = invoked + 1
    /\ afterLeave' = FALSE
    /\ UNCHANGED <<pcRef, iceServersRef, localStreamRef, state, pcs, streams>>

\* a catch block of join that logs and returns normally
JoinCatchSwallows(call, e) == [Resolved(call) EXCEPT !.err = e, !.logged = CatchLog(call.op)]

\* the catch block of join
JoinCatch(call, e) == Rethrow(call, e)

\* join that stores res.ice_servers as it came
JoinIceServersRaw(ice) == ice.items

\* the ICE list join stores
JoinIceServers(ice) ==
    IF ice.isArray /\ Len(ice.items) > 0 THEN ice.items ELSE DefaultIce

\* join, resumed from api.joinRoom
JoinResume(c) ==
    /\ At(c, "join", "joinRoom")
    /\ \E outcome \in RequestOutcomes, sid \in SessionIds, ice \in BackendIce :
        IF RequestFails(outcome)
        THEN /\ Proceed(c, JoinCatch(calls[c], "TransportError"))
             /\ UNCHANGED <<iceServersRef, state>>
        ELSE /\ iceServersRef' = JoinIceServers(ice)
             /\ state' = [state EXCEPT !.sessionId = sid, !.room = "room",
                                       !.iceServers = JoinIceServers(ice)]
             /\ Proceed(c, Resolved([calls[c] EXCEPT !.ice_servers = ice]))
    /\ UNCHANGED <<pcRef, localStreamRef, pcs, streams, afterLeave, invoked>>

\* ------------------------------------------------------------------ leave
\* a leave that leaves the tracks running
StopTracksSkipped(ss, s) == ss

\* t.stop() on every track of the stream
StopTracks(ss, s) ==
    IF s = 0 THEN ss
    ELSE [ss EXCEPT ![s].stopped = [i \in 1..Len(@) |-> TRUE]]

\* leave that forgets `pcRef.current = null`
LeavePcRefKept(ref) == ref

\* what leave does to pcRef.current after closing it
LeavePcRef(ref) == 0

\* a catch block of leave that rethrows like the other three
LeaveCatchRethrows(call, e) == Rethrow(call, e)

\* the catch block of leave: log the error, return normally
LeaveCatch(call, e) == [Resolved(call) EXCEPT !.err = e, !.logged = CatchLog(call.op)]

\* leave, up to `await api.leaveRoom(roomId)`
Leave(c) ==
    /\ CanInvoke(c)
    /\ streams' = StopTracks(streams, localStreamRef)
    /\ localStreamRef' = 0
    /\ pcs' = IF pcRef # 0 THEN ClosePC(pcs, pcRef) ELSE pcs
    /\ pcRef' = LeavePcRef(pcRef)
    /\ iceServersRef' = <<>>
    /\ calls' = [d \in Calls |->
                    IF d = c
                    THEN [Request(Started(c, "leave", "leaveRoom"), "leaveRoom") EXCEPT
                              !.owed = Len(streams), !.closedPc = pcRef,
                              !.stream = localStreamRef]
                    ELSE IF Pending(d) /\ calls[d].op # "leave"
                    THEN [calls[d] EXCEPT !.stale = TRUE]
                    ELSE calls[d]]
    /\ invoked' = invoked + 1
    /\ returned' = Summary(IdleCall)
    /\ afterLeave' = FALSE
    /\ UNCHANGED <<state, logs>>

\* leave, resumed from api.leaveRoom
LeaveResume(c) ==
    /\ At(c, "leave", "leaveRoom")
    /\ \E outcome \in RequestOutcomes :
        IF RequestFails(outcome)
        THEN /\ Proceed(c, LeaveCatch(calls[c], "TransportError"))
             /\ UNCHANGED state
        ELSE /\ state' = InitialState
             /\ Proceed(c, Resolved(calls[c]))
    /\ afterLeave' = TRUE
    /\ UNCHANGED <<pcRef, iceServersRef, localStreamRef, pcs, streams, invoked>>

\* ---------------------------------------------------------- publishTracks
\* publishTracks, up to `await navigator.mediaDevices.getUserMedia(...)`
PublishTracks(c) ==
    /\ CanInvoke(c)
    /\ Proceed(c, Started(c, "publishTracks", "getUserMedia"))
    /\ invoked' = invoked + 1
    /\ UNCHANGED <<pcRef, iceServersRef, localStreamRef, state, pcs, streams,
                   afterLeave>>

\* the ICE list publishTracks hands to createPC
PublishIceServers(ref) == IF Len(ref) > 0 THEN ref ELSE DefaultIce

RECURSIVE AddTracks(_, _)
AddTracks(pc, kinds) ==
    IF kinds = <<>> THEN pc ELSE AddTracks(AddTrack(pc, Head(kinds)), Tail(kinds))

\* pc.getTransceivers().map(t => ({trackName, mid, kind}))
TrackInfo(t) ==
    [trackName |-> OrElse(t.senderTrack, UNKNOWN) \o DASH \o Template(t.mid),
     mid |-> OrElse(t.mid, <<>>),
     kind |-> OrElse(t.senderTrack, UNKNOWN)]

TrackInfos(pc) == [i \in 1..Len(pc.transceivers) |-> TrackInfo(pc.transceivers[i])]

\* bindings read before the local description is committed
PublishTrackInfosEarly(before, after) == TrackInfos(before)

\* the bindings publishTracks derives, given the connection as it was before
\* setLocalDescription took effect and as it is once that promise resolved
PublishTrackInfos(before, after) == TrackInfos(after)

\* a step of call c that rejects with e and touches nothing else
Fails(c, e, unchanged) ==
    /\ Proceed(c, Rethrow(calls[c], e))
    /\ UNCHANGED unchanged

\* publishTracks, resumed from getUserMedia
PublishGotMedia(c) ==
    /\ At(c, "publishTracks", "getUserMedia")
    /\ \E outcome \in {"ok", "fail"} :
        IF outcome = "fail"
        THEN Fails(c, "MediaError", <<pcRef, pcs, streams>>)
        ELSE LET s  == Len(streams) + 1
                 cp == createPC(pcs, pcRef, PublishIceServers(iceServersRef))
                 p  == cp.pcRef
             IN  /\ streams' = Append(streams,
                        [tracks |-> CaptureKinds,
                         stopped |-> [i \in 1..Len(CaptureKinds) |-> FALSE]])
                 /\ pcs' = [cp.pcs EXCEPT ![p] = AddTracks(@, CaptureKinds)]
                 /\ pcRef' = p
                 /\ Proceed(c, [calls[c] EXCEPT !.stream = s, !.pc = p,
                                                !.at = "createOffer"])
    /\ UNCHANGED <<iceServersRef, localStreamRef, state, afterLeave, invoked>>

\* publishTracks / subscribeTo, resumed from `await pc.createOffer()`
OfferCreated(c, op, from, to) ==
    /\ At(c, op, from)
    /\ \E outcome \in PcStepOutcomes(calls[c].pc) :
        IF outcome = "fail"
        THEN Proceed(c, Rethrow(calls[c], "PcError"))
        ELSE Proceed(c, [calls[c] EXCEPT !.offer = CreateOffer(pcs[calls[c].pc]),
                                         !.re = IF from = "reCreateOffer"
                                                THEN "offered" ELSE @,
                                         !.at = to])
    /\ UNCHANGED <<pcRef, iceServersRef, localStreamRef, state, pcs, streams,
                   afterLeave, invoked>>

PublishOfferCreated(c) ==
    OfferCreated(c, "publishTracks", "createOffer", "setLocalDescription")

\* publishTracks, resumed from `await pc.setLocalDescription(offer)`:
\* reads the mids and sends the publish request
PublishLocalSet(c) ==
    /\ At(c, "publishTracks", "setLocalDescription")
    /\ \E outcome \in PcStepOutcomes(calls[c].pc) :
        IF outcome = "fail"
        THEN Fails(c, "PcError", pcs)
        ELSE LET p     == calls[c].pc
                 after == SetLocalDescription(pcs[p], calls[c].offer)
             IN  /\ pcs' = [pcs EXCEPT ![p] = after]
                 /\ Proceed(c, Request([calls[c] EXCEPT
                                   !.req = PublishTrackInfos(pcs[p], after)],
                                   "publish"))
    /\ UNCHANGED <<pcRef, iceServersRef, localStreamRef, state, streams,
                   afterLeave, invoked>>

\* the end of publishTracks: store the stream, return the response
PublishDone(c, call) ==
    /\ localStreamRef' = call.stream
    /\ state' = [state EXCEPT !.localStream = call.stream]
    /\ Proceed(c, Resolved(call))

\* a client that ignores requires_immediate_renegotiation
RenegotiatesNever(res) == FALSE

\* `if (res.requires_immediate_renegotiation)`
Renegotiates(res) == res.renego

\* publishTracks after the answer step: renegotiate when asked to, else finish
PublishAfterAnswer(c, call) ==
    IF Renegotiates(call.res)
    THEN /\ Proceed(c, [call EXCEPT !.at = "reCreateOffer"])
         /\ UNCHANGED <<localStreamRef, state>>
    ELSE PublishDone(c, call)

\* a publishTracks that sends the publish request once more when it failed
PublishRequestRetried(call, e) ==
    IF Len(call.requests) < 2 THEN Request(call, "publish") ELSE Rethrow(call, e)

\* api.publish rejected: the error goes to the catch block
PublishRequestFailed(call, e) == Rethrow(call, e)

\* publishTracks, resumed from `await api.publish(...)`
PublishResponse(c) ==
    /\ At(c, "publishTracks", "publish")
    /\ \E outcome \in RequestOutcomes, answer \in BOOLEAN, renego \in BOOLEAN :
        IF RequestFails(outcome)
        THEN /\ Proceed(c, PublishRequestFailed(calls[c], "TransportError"))
             /\ UNCHANGED <<localStreamRef, state>>
        ELSE LET call == [calls[c] EXCEPT !.req = <<>>,
                              !.res = [received |-> TRUE, answer_sdp |-> answer,
                                       renego |-> renego, tracks |-> <<>>]]
             IN  IF answer
                 THEN /\ Proceed(c, [call EXCEPT !.at = "setRemoteDescription"])
                      /\ UNCHANGED <<localStreamRef, state>>
                 ELSE PublishAfterAnswer(c, call)
    /\ UNCHANGED <<pcRef, iceServersRef, pcs, streams, afterLeave, invoked>>

\* publishTracks, resumed from `await pc.setRemoteDescription(answer)`
PublishRemoteSet(c) ==
    /\ At(c, "publishTracks", "setRemoteDescription")
    /\ \E outcome \in PcStepOutcomes(calls[c].pc) :
        IF outcome = "fail"
        THEN Fails(c, "PcError", <<pcs, localStreamRef, state>>)
        ELSE /\ pcs' = [pcs EXCEPT ![calls[c].pc] = SetRemoteDescription(@)]
             /\ PublishAfterAnswer(c, calls[c])
    /\ UNCHANGED <<pcRef, iceServersRef, streams, afterLeave, invoked>>

PublishReOfferCreated(c) ==
    OfferCreated(c, "publishTracks", "reCreateOffer", "reSetLocalDescription")

\* publishTracks / subscribeTo, resumed from
\* `await pc.setLocalDescription(reOffer)`: sends the renegotiate request
ReLocalSet(c, op) ==
    /\ At(c, op, "reSetLocalDescription")
    /\ \E outcome \in PcStepOutcomes(calls[c].pc) :
        IF outcome = "fail"
        THEN Fails(c, "PcError", pcs)
        ELSE /\ pcs' = [pcs EXCEPT ![calls[c].pc] =
                            SetLocalDescription(@, calls[c].offer)]
             /\ Proceed(c, Request([calls[c] EXCEPT !.re = "sent"], "renegotiate"))
    /\ UNCHANGED <<pcRef, iceServersRef, localStreamRef, state, streams,
                   afterLeave, invoked>>

PublishReLocalSet(c) == ReLocalSet(c, "publishTracks")

\* publishTracks, resumed from `await api.renegotiate(...)`
PublishRenegotiated(c) ==
    /\ At(c, "publishTracks", "renegotiate")
    /\ \E outcome \in RequestOutcomes, sdp \in BOOLEAN :
        IF RequestFails(outcome)
        THEN Fails(c, "TransportError", <<localStreamRef, state>>)
        ELSE IF sdp
        THEN /\ Proceed(c, [calls[c] EXCEPT !.re = "answered",
                                            !.at = "reSetRemoteDescription"])
             /\ UNCHANGED <<localStreamRef, state>>
        ELSE PublishDone(c, [calls[c] EXCEPT !.re = "noSdp"])
    /\ UNCHANGED <<pcRef, iceServersRef, pcs, streams, afterLeave, invoked>>

\* publishTracks, resumed from `await pc.setRemoteDescription(reRes)`
PublishReRemoteSet(c) ==
    /\ At(c, "publishTracks", "reSetRemoteDescription")
    /\ \E outcome \in PcStepOutcomes(calls[c].pc) :
        IF outcome = "fail"
        THEN Fails(c, "PcError", <<pcs, localStreamRef, state>>)
        ELSE /\ pcs' = [pcs EXCEPT ![calls[c].pc] = SetRemoteDescription(@)]
             /\ PublishDone(c, [calls[c] EXCEPT !.re = "applied"])
    /\ UNCHANGED <<pcRef, iceServersRef, streams, afterLeave, invoked>>

\* ------------------------------------------------------------ subscribeTo
\* the rule of the earlier subscribeTo: name.startsWith("audio") ? "audio" : "video"
InferKindEarlier(name) == IF StartsWith(name, AUDIO) THEN AUDIO ELSE VIDEO

\* name.startsWith("video") ? "video" : "audio"
InferKind(name) == IF StartsWith(name, VIDEO) THEN VIDEO ELSE AUDIO

RECURSIVE AddRecvOnly(_, _)
AddRecvOnly(pc, names) ==
    IF names = <<>> THEN pc
    ELSE AddRecvOnly(AddTransceiver(pc, InferKind(Head(names))), Tail(names))

\* a track list built back to front
SubscribeTracksReversed(names, remoteSessionId) ==
    [i \in 1..Len(names) |->
        [trackName |-> names[Len(names) + 1 - i], sessionId |-> remoteSessionId]]

\* trackNames.map(name => ({trackName: name, sessionId: remoteSessionId}))
SubscribeTracks(names, remoteSessionId) ==
    [i \in 1..Len(names) |-> [trackName |-> names[i], sessionId |-> remoteSessionId]]

\* a subscribeTo that returns silently when there is no connection
SubscribeNoPcIgnored(call) == Resolved(call)

\* `if (!pc) throw new Error("No PeerConnection — publish first")`, caught by
\* the catch block
SubscribeNoPc(call) == Rethrow(call, "NoPeerConnection")

\* the receive-only slots of a connection, by their position in
\* pc.getTransceivers()
RecvOnly(pc) ==
    {i \in 1..Len(pc.transceivers) : pc.transceivers[i].direction = "recvonly"}

\* a subscribeTo that builds a connection of its own
SubscribeConnectionOwn(ps, ref) == createPC(ps, ref, DefaultIce)

\* `const pc = pcRef.current`: subscribeTo works on the current connection
SubscribeConnection(ps, ref) == [pcs |-> ps, pcRef |-> ref]

\* subscribeTo, up to `await pc.createOffer()`
SubscribeTo(c, remoteSessionId, trackNames) ==
    /\ CanInvoke(c)
    /\ LET call == [Started(c, "subscribeTo", "createOffer") EXCEPT
                        !.remoteSessionId = remoteSessionId,
                        !.trackNames = trackNames, !.pc = pcRef,
                        !.recvOnlyBefore =
                            IF pcRef = 0 THEN {} ELSE RecvOnly(pcs[pcRef])]
       IN  IF pcRef = 0
           THEN /\ Proceed(c, SubscribeNoPc(call))
                /\ UNCHANGED <<pcs, pcRef>>
           ELSE LET sc == SubscribeConnection(pcs, pcRef)
                IN  /\ pcs' = [sc.pcs EXCEPT ![sc.pcRef] = AddRecvOnly(@, trackNames)]
                    /\ pcRef' = sc.pcRef
                    /\ Proceed(c, [call EXCEPT !.pc = sc.pcRef])
    /\ invoked' = invoked + 1
    /\ UNCHANGED <<iceServersRef, localStreamRef, state, streams, afterLeave>>

SubscribeOfferCreated(c) ==
    OfferCreated(c, "subscribeTo", "createOffer", "setLocalDescription")

\* subscribeTo, resumed from `await pc.setLocalDescription(offer)`:
\* builds the track list and sends the subscribe request
SubscribeLocalSet(c) ==
    /\ At(c, "subscribeTo", "setLocalDescription")
    /\ \E outcome \in PcStepOutcomes(calls[c].pc) :
        IF outcome = "fail"
        THEN Fails(c, "PcError", pcs)
        ELSE /\ pcs' = [pcs EXCEPT ![calls[c].pc] =
                            SetLocalDescription(@, calls[c].offer)]
             /\ Proceed(c, Request([calls[c] EXCEPT
                               !.req = SubscribeTracks(calls[c].trackNames,
                                                       calls[c].remoteSessionId)],
                               "subscribe"))
    /\ UNCHANGED <<pcRef, iceServersRef, localStreamRef, state, streams,
                   afterLeave, invoked>>

\* subscribeTo after the answer step: renegotiate when asked to, else return
SubscribeAfterAnswer(call) ==
    IF Renegotiates(call.res)
    THEN [call EXCEPT !.at = "reCreateOffer"]
    ELSE Resolved(call)

\* a no-answer branch that logs no track error
TrackErrorsDropped(tracks) == <<>>

\* the `Track error: ...` entries logged in the no-answer branch, one per
\* track of res.tracks that has an errorCode, in order
TrackErrors(tracks) ==
    LET Errored(t) == t.errorCode # ""
        picked == SelectSeq(tracks, Errored)
    IN  [i \in 1..Len(picked) |->
            [trackName |-> picked[i].trackName, errorCode |-> picked[i].errorCode,
             errorDescription |-> picked[i].errorDescription]]

\* subscribeTo, resumed from `await api.subscribe(...)`
SubscribeResponse(c) ==
    /\ At(c, "subscribeTo", "subscribe")
    /\ \E outcome \in RequestOutcomes, answer \in BOOLEAN, renego \in BOOLEAN,
          errored \in ErroredTracks :
        IF RequestFails(outcome)
        THEN Proceed(c, Rethrow(calls[c], "TransportError"))
        ELSE LET call == [calls[c] EXCEPT !.req = <<>>,
                              !.res = [received |-> TRUE, answer_sdp |-> answer,
                                       renego |-> renego,
                                       tracks |-> BackendTracks(calls[c].req, errored)]]
             IN  IF answer
                 THEN Proceed(c, [call EXCEPT !.at = "setRemoteDescription"])
                 ELSE Proceed(c, SubscribeAfterAnswer(
                          [call EXCEPT !.trackErrors = TrackErrors(call.res.tracks)]))
    /\ UNCHANGED <<pcRef, iceServersRef, localStreamRef, state, pcs, streams,
                   afterLeave, invoked>>

\* subscribeTo, resumed from `await pc.setRemoteDescription(answer)`
SubscribeRemoteSet(c) ==
    /\ At(c, "subscribeTo", "setRemoteDescription")
    /\ \E outcome \in PcStepOutcomes(calls[c].pc) :
        IF outcome = "fail"
        THEN Fails(c, "PcError", pcs)
        ELSE /\ pcs' = [pcs EXCEPT ![calls[c].pc] = SetRemoteDescription(@)]
             /\ Proceed(c, SubscribeAfterAnswer(calls[c]))
    /\ UNCHANGED <<pcRef, iceServersRef, localStreamRef, state, streams,
                   afterLeave, invoked>>

SubscribeReOfferCreated(c) ==
    OfferCreated(c, "subscribeTo", "reCreateOffer", "reSetLocalDescription")

SubscribeReLocalSet(c) == ReLocalSet(c, "subscribeTo")

\* subscribeTo, resumed from `await api.renegotiate(...)`
SubscribeRenegotiated(c) ==
    /\ At(c, "subscribeTo", "renegotiate")
    /\ \E outcome \in RequestOutcomes, sdp \in BOOLEAN :
        IF RequestFails(outcome)
        THEN Proceed(c, Rethrow(calls[c], "TransportError"))
        ELSE IF sdp
        THEN Proceed(c, [calls[c] EXCEPT !.re = "answered",
                                        !.at = "reSetRemoteDescription"])
        ELSE Proceed(c, Resolved([calls[c] EXCEPT !.re = "noSdp"]))
    /\ UNCHANGED <<pcRef, iceServersRef, localStreamRef, state, pcs, streams,
                   afterLeave, invoked>>

\* subscribeTo, resumed from `await pc.setRemoteDescription(reRes)`
SubscribeReRemoteSet(c) ==
    /\ At(c, "subscribeTo", "reSetRemoteDescription")
    /\ \E outcome \in PcStepOutcomes(calls[c].pc) :
        IF outcome = "fail"
        THEN Fails(c, "PcError", pcs)
        ELSE /\ pcs' = [pcs EXCEPT ![calls[c].pc] = SetRemoteDescription(@)]
             /\ Proceed(c, Resolved([calls[c] EXCEPT !.re = "applied"]))
    /\ UNCHANGED <<pcRef, iceServersRef, localStreamRef, state, streams,
                   afterLeave, invoked>>

\* ---------------------------------------------------------- specification
Next ==
    \/ \E c \in Calls : WithinMaxCalls /\ Join(c)
    \/ \E c \in Calls : JoinResume(c)
    \/ \E c \in Calls : WithinMaxCalls /\ PublishTracks(c)
    \/ \E c \in Calls : PublishGotMedia(c)
    \/ \E c \in Calls : PublishOfferCreated(c)
    \/ \E c \in Calls : PublishLocalSet(c)
    \/ \E c \in Calls : PublishResponse(c)
    \/ \E c \in Calls : PublishRemoteSet(c)
    \/ \E c \in Calls : PublishReOfferCreated(c)
    \/ \E c \in Calls : PublishReLocalSet(c)
    \/ \E c \in Calls : PublishRenegotiated(c)
    \/ \E c \in Calls : PublishReRemoteSet(c)
    \/ \E c \in Calls, r \in RemoteSessionIds, names \in TrackNameLists :
          WithinMaxCalls /\ SubscribeTo(c, r, names)
    \/ \E c \in Calls : SubscribeOfferCreated(c)
    \/ \E c \in Calls : SubscribeLocalSet(c)
    \/ \E c \in Calls : SubscribeResponse(c)
    \/ \E c \in Calls : SubscribeRemoteSet(c)
    \/ \E c \in Calls : SubscribeReOfferCreated(c)
    \/ \E c \in Calls : SubscribeReLocalSet(c)
    \/ \E c \in Calls : SubscribeRenegotiated(c)
    \/ \E c \in Calls : SubscribeReRemoteSet(c)
    \/ \E c \in Calls : WithinMaxCalls /\ Leave(c)
    \/ \E c \in Calls : LeaveResume(c)
    \/ \E p \in 1..Len(pcs), sid \in RemoteStreamIds :
          OnTrack(p, TrackEvent(<<sid>>, VIDEO))

Spec == Init /\ [][Next]_vars

\* ------------------------------------------------------------- scheduling
\* the continuations of the call in slot c: the code that runs when the
\* promise the call awaits settles
CallStep(c) ==
    \/ JoinResume(c)
    \/ PublishGotMedia(c)
    \/ PublishOfferCreated(c)
    \/ PublishLocalSet(c)
    \/ PublishResponse(c)
    \/ PublishRemoteSet(c)
    \/ PublishReOfferCreated(c)
    \/ PublishReLocalSet(c)
    \/ PublishRenegotiated(c)
    \/ PublishReRemoteSet(c)
    \/ SubscribeOfferCreated(c)
    \/ SubscribeLocalSet(c)
    \/ SubscribeResponse(c)
    \/ SubscribeRemoteSet(c)
    \/ SubscribeReOfferCreated(c)
    \/ SubscribeReLocalSet(c)
    \/ SubscribeRenegotiated(c)
    \/ SubscribeReRemoteSet(c)
    \/ LeaveResume(c)

\* Every backend request, capture request and connection step a call awaits
\* eventually completes or fails, and the event loop then runs the
\* continuation: a continuation that stays enabled is eventually taken.
\* the caller of SpecLive makes at most MaxLiveCalls calls
WithinMaxLiveCalls == invoked < MaxLiveCalls

NextLive ==
    \/ \E c \in Calls : WithinMaxLiveCalls /\ Join(c)
    \/ \E c \in Calls : WithinMaxLiveCalls /\ PublishTracks(c)
    \/ \E c \in Calls, r \in RemoteSessionIds, names \in TrackNameLists :
          WithinMaxLiveCalls /\ SubscribeTo(c, r, names)
    \/ \E c \in Calls : WithinMaxLiveCalls /\ Leave(c)
    \/ \E c \in Calls : CallStep(c)
    \/ \E p \in 1..Len(pcs), sid \in RemoteStreamIds :
          OnTrack(p, TrackEvent(<<sid>>, VIDEO))

SpecLive == Init /\ [][NextLive]_vars /\ \A c \in Calls : WF_vars(CallStep(c))

\* ------------------------------------------------- track events on their own
\* The session after join (the backend returned an empty ICE list) and
\* publishTracks (answer, no renegotiation) have resolved.
PublishedCall ==
    [IdleCall EXCEPT !.op = "publishTracks", !.status = "resolved", !.at = "done",
                     !.stream = 1, !.pc = 1, !.offer = Len(CaptureKinds),
                     !.requests = <<"publish">>,
                     !.res = [received |-> TRUE, answer_sdp |-> TRUE,
                              renego |-> FALSE, tracks |-> <<>>]]

InitPublished ==
    /\ pcRef = 1
    /\ iceServersRef = DefaultIce
    /\ localStreamRef = 1
    /\ state = [sessionId |-> "s1", room |-> "room", iceServers |-> DefaultIce,
                localStream |-> 1, remoteStreams |-> {}]
    /\ pcs = << SetRemoteDescription(
                   SetLocalDescription(AddTracks(NewPC(DefaultIce), CaptureKinds),
                                       Len(CaptureKinds))) >>
    /\ streams = << [tracks |-> CaptureKinds,
                     stopped |-> [i \in 1..Len(CaptureKinds) |-> FALSE]] >>
    /\ calls = [c \in Calls |-> IdleCall]
    /\ invoked = 2
    /\ returned = Summary(PublishedCall)
    /\ afterLeave = FALSE
    /\ logs = <<>>

\* the events the connection may deliver: with one stream, of either kind,
\* or without a stream
TrackEvents ==
    {TrackEvent(<<sid>>, kind) : sid \in EventStreamIds, kind \in {AUDIO, VIDEO}}
        \cup {TrackEvent(<<>>, kind) : kind \in {AUDIO, VIDEO}}

NextOnTrack == \E p \in 1..Len(pcs), event \in TrackEvents : OnTrack(p, event)

SpecOnTrack == InitPublished /\ [][NextOnTrack]_vars

\* ------------------------------------------------------ the guide's scenario
\* join, publishTracks, subscribeTo(s2, [video-1]), leave, each invoked when
\* the one before has settled; no step fails and the backend answers join
\* with an empty ICE list.  Track events arrive when they may.
ScenarioNames == << VIDEO \o DASH \o <<"1">> >>

EmptyIceList == [isArray |-> TRUE, items |-> <<>>]

\* ids of the remote streams whose tracks arrive during the scenario
ScenarioStreamIds == {"ms1", "ms2"}

Quiet == \A c \in Calls : ~Pending(c)

\* the step raised no error
Succeeds == returned'.status # "rejected" /\ returned'.err = ""

ScenarioNext ==
    \/ \E c \in Calls : invoked = 0 /\ Join(c)
    \/ \E c \in Calls :
          JoinResume(c) /\ Succeeds /\ returned'.ice_servers = EmptyIceList
    \/ \E c \in Calls : invoked = 1 /\ Quiet /\ PublishTracks(c)
    \/ \E c \in Calls : PublishGotMedia(c) /\ Succeeds
    \/ \E c \in Calls : PublishOfferCreated(c) /\ Succeeds
    \/ \E c \in Calls : PublishLocalSet(c) /\ Succeeds
    \/ \E c \in Calls : PublishResponse(c) /\ Succeeds
    \/ \E c \in Calls : PublishRemoteSet(c) /\ Succeeds
    \/ \E c \in Calls : PublishReOfferCreated(c) /\ Succeeds
    \/ \E c \in Calls : PublishReLocalSet(c) /\ Succeeds
    \/ \E c \in Calls : PublishRenegotiated(c) /\ Succeeds
    \/ \E c \in Calls : PublishReRemoteSet(c) /\ Succeeds
    \/ \E c \in Calls : invoked = 2 /\ Quiet /\ SubscribeTo(c, "s2", ScenarioNames)
    \/ \E c \in Calls : SubscribeOfferCreated(c) /\ Succeeds
    \/ \E c \in Calls : SubscribeLocalSet(c) /\ Succeeds
    \/ \E c \in Calls : SubscribeResponse(c) /\ Succeeds
    \/ \E c \in Calls : SubscribeRemoteSet(c) /\ Succeeds
    \/ \E c \in Calls : SubscribeReOfferCreated(c) /\ Succeeds
    \/ \E c \in Calls : SubscribeReLocalSet(c) /\ Succeeds
    \/ \E c \in Calls : SubscribeRenegotiated(c) /\ Succeeds
    \/ \E c \in Calls : SubscribeReRemoteSet(c) /\ Succeeds
    \/ \E c \in Calls : invoked = 3 /\ Quiet /\ Leave(c)
    \/ \E c \in Calls : LeaveResume(c) /\ Succeeds
    \/ \E p \in 1..Len(pcs), sid \in ScenarioStreamIds :
          OnTrack(p, TrackEvent(<<sid>>, VIDEO))

SpecScenario == Init /\ [][ScenarioNext]_vars

\* ------------------------------------------------------------- properties
NegotiationOps == {"publishTracks", "subscribeTo"}

\* positions of a negotiation call between the commit of its first offer and
\* its settling
RoundPositions ==
    {"publish", "subscribe", "setRemoteDescription", "reCreateOffer",
     "reSetLocalDescription", "renegotiate", "reSetRemoteDescription"}

RoundPending(c) == Negotiating(c) /\ calls[c].at \in RoundPositions

Unclosed == {p \in 1..Len(pcs) : pcs[p].closeCalls = 0}

AllStopped(s) == \A i \in 1..Len(streams[s].stopped) : streams[s].stopped[i]

\* C1: at most one negotiation round is pending on the session at any time.
C1_AtMostOneRoundPending == Cardinality({c \in Calls : RoundPending(c)}) <= 1

\* C2: a publishTracks or subscribeTo invoked while an earlier round has not
\* settled is rejected with NegotiationBusy and performs no connection step.
C2_SecondCallRejectedBusy ==
    [][ ( /\ invoked' = invoked + 1
          /\ \E d \in Calls : Negotiating(d)
          /\ \/ returned'.op \in NegotiationOps
             \/ \E c \in Calls : ~Pending(c) /\ calls'[c].op \in NegotiationOps )
        => ( /\ returned'.op \in NegotiationOps
             /\ returned'.status = "rejected"
             /\ returned'.err = "NegotiationBusy"
             /\ pcs' = pcs /\ pcRef' = pcRef ) ]_vars

\* C3: the promise returned by leave never rejects, also when the backend
\* leave request fails.
C3_LeaveNeverRejects == returned.op = "leave" => returned.status = "resolved"

C3_Witness ==
    /\ returned.op = "leave"
    /\ returned.status = "resolved"
    /\ returned.err = "TransportError"

\* C4: whenever leave returns, the exposed state is reset: sessionId null,
\* iceServers empty, localStream null, remote-stream map empty.
C4_LeaveResetsState ==
    returned.op = "leave" =>
        /\ state.sessionId = ""
        /\ state.iceServers = <<>>
        /\ state.localStream = 0
        /\ state.remoteStreams = {}

\* C5: once a leave has returned, and until the next join is invoked, the
\* continuation of a call that was suspended when that leave ran sets neither
\* sessionId, iceServers nor localStream and creates no connection.
C5_StaleContinuationInert ==
    [][ \A c \in Calls :
          ( /\ afterLeave
            /\ Pending(c) /\ calls[c].stale
            /\ calls'[c] # calls[c] )
          => ( /\ state'.sessionId = state.sessionId
               /\ state'.iceServers = state.iceServers
               /\ state'.localStream = state.localStream
               /\ localStreamRef' = localStreamRef
               /\ Len(pcs') = Len(pcs) ) ]_vars

\* C6: after leave returns, every capture stream acquired before that leave
\* ran is stopped.
C6_LeaveStopsAcquiredStreams ==
    returned.op = "leave" => \A s \in 1..returned.owed : AllStopped(s)

\* C7: close is invoked at most once on each connection instance, and exactly
\* once on the connection a leave found in pcRef.
C7_CloseAtMostOnce ==
    /\ \A p \in 1..Len(pcs) : pcs[p].closeCalls <= 1
    /\ \A c \in Calls :
          (At(c, "leave", "leaveRoom") /\ calls[c].closedPc # 0)
              => pcs[calls[c].closedPc].closeCalls = 1

\* a leave that ran after an earlier leave had closed the latest connection
C7_Witness ==
    \E c \in Calls :
        /\ At(c, "leave", "leaveRoom")
        /\ calls[c].closedPc = 0
        /\ calls[c].owed >= 1
        /\ pcs[calls[c].owed].closeCalls = 1

\* C8: a publish response without answer SDP makes publishTracks reject with
\* NoAnswer; the call neither goes on nor resolves.
C8_NoAnswerRejects ==
    /\ \A c \in Calls :
          (Pending(c) /\ calls[c].op = "publishTracks" /\ calls[c].res.received)
              => calls[c].res.answer_sdp
    /\ ( /\ returned.op = "publishTracks"
         /\ returned.res.received
         /\ ~returned.res.answer_sdp )
       => (returned.status = "rejected" /\ returned.err = "NoAnswer")

C10_AtMostOneUnclosed == Cardinality(Unclosed) <= 1

\* two publishTracks calls and nothing else: the second replaced the first's
\* connection
C10_Witness ==
    /\ invoked = 2
    /\ Len(pcs) = 2
    /\ pcs[1].closeCalls = 1
    /\ pcs[2].closeCalls = 0
    /\ pcRef = 2

\* a step that invokes the operation op: the call either suspends in a free
\* slot or settles before its first await
InvokedOp(op) ==
    /\ invoked' = invoked + 1
    /\ \/ returned'.op = op
       \/ \E c \in Calls : ~Pending(c) /\ calls'[c].op = op

\* what a step made of the call in slot c: the call as it goes on, or what it
\* delivered to its caller when the step settled it
Outcome(c) == IF calls'[c].status = "pending" THEN Summary(calls'[c]) ELSE returned'

C12_SubscribeWithoutConnection ==
    [][ (pcRef = 0 /\ InvokedOp("subscribeTo"))
        => ( /\ returned'.op = "subscribeTo"
             /\ returned'.status = "rejected"
             /\ returned'.err = "NoPeerConnection"
             /\ calls' = calls
             /\ pcs' = pcs /\ pcRef' = pcRef
             /\ state' = state
             /\ iceServersRef' = iceServersRef /\ localStreamRef' = localStreamRef ) ]_vars

C12_Witness ==
    /\ returned.op = "subscribeTo"
    /\ returned.status = "rejected"
    /\ returned.err = "NoPeerConnection"
    /\ pcRef = 0
    /\ state.sessionId # ""

\* C13: subscribeTo invoked while no publishTracks has resolved since the
\* last leave is rejected, adds no slot and sends no request.
C13_SubscribeOnlyWhenPublished ==
    [][ (localStreamRef = 0 /\ InvokedOp("subscribeTo"))
        => ( /\ returned'.op = "subscribeTo"
             /\ returned'.status = "rejected"
             /\ calls' = calls
             /\ pcs' = pcs ) ]_vars

\* C14: a subscribe response without answer SDP does not make subscribeTo
\* reject, closes no connection, leaves the remote-stream map as it is, and
\* every track of the response that has an errorCode is recorded with its
\* errorCode and errorDescription, and nothing else is.
C14_PartialSubscribeFailure ==
    [][ \A c \in Calls :
          ( /\ At(c, "subscribeTo", "subscribe")
            /\ Outcome(c).op = "subscribeTo"
            /\ Outcome(c).res.received
            /\ ~Outcome(c).res.answer_sdp )
          => LET tracks == Outcome(c).res.tracks
                 errs   == Outcome(c).trackErrors
             IN  /\ Outcome(c).status # "rejected"
                 /\ pcs' = pcs
                 /\ state'.remoteStreams = state.remoteStreams
                 /\ \A i \in 1..Len(tracks) :
                       tracks[i].errorCode # "" =>
                           \E j \in 1..Len(errs) : errs[j] = tracks[i]
                 /\ Len(errs) =
                       Cardinality({i \in 1..Len(tracks) : tracks[i].errorCode # ""}) ]_vars

C14_Witness ==
    /\ returned.op = "subscribeTo"
    /\ returned.status = "resolved"
    /\ returned.res.received
    /\ ~returned.res.answer_sdp
    /\ Len(returned.trackErrors) = 1
    /\ returned.trackErrors[1].trackName = AUDIO \o DASH \o <<"0">>
    /\ returned.trackErrors[1].errorCode = "NOT_FOUND"
    /\ \E p \in 1..Len(pcs) : pcs[p].closeCalls = 0
    /\ state.remoteStreams # {}

\* C15: when join resolves, iceServers is the backend's list if that is a
\* non-empty array and the one default entry otherwise; iceServers is not
\* empty while sessionId is set.
C15_IceServersAfterJoin ==
    /\ (returned.op = "join" /\ returned.status = "resolved")
       => LET ice == returned.ice_servers
          IN  IF ice.isArray /\ ice.items # <<>>
              THEN state.iceServers = ice.items
              ELSE /\ Len(state.iceServers) = 1
                   /\ state.iceServers[1] = "stun:stun.cloudflare.com:3478"
    /\ state.sessionId # "" => state.iceServers # <<>>

C15_Witness ==
    /\ returned.op = "join"
    /\ returned.status = "resolved"
    /\ returned.ice_servers.isArray
    /\ returned.ice_servers.items = <<>>
    /\ state.iceServers = DefaultIce

\* C16: a join whose backend request fails logs an entry and rejects with the
\* error, and changes neither the session state nor the connection.
C16_JoinFailureLeavesIdle ==
    [][ (returned'.op = "join" /\ returned'.err # "")
        => ( /\ returned'.status = "rejected"
             /\ returned'.err = "TransportError"
             /\ returned'.logged = "Join failed"
             /\ state' = state
             /\ iceServersRef' = iceServersRef /\ localStreamRef' = localStreamRef
             /\ pcRef' = pcRef /\ pcs' = pcs ) ]_vars

C16_Witness ==
    /\ returned.op = "join"
    /\ returned.status = "rejected"
    /\ returned.logged = "Join failed"
    /\ state = InitialState
    /\ invoked = 1

\* C17: join invoked while sessionId is set is rejected as an invalid-phase
\* operation and issues no backend join request.
C17_JoinOnlyWhenIdle ==
    [][ (state.sessionId # "" /\ InvokedOp("join"))
        => ( /\ returned'.op = "join"
             /\ returned'.status = "rejected"
             /\ returned'.err = "InvalidPhase"
             /\ calls' = calls ) ]_vars

\* C18: publishTracks invoked while sessionId is null is rejected, creates no
\* connection and sends no backend publish request.
C18_PublishOnlyWhenJoined ==
    [][ (state.sessionId = "" /\ InvokedOp("publishTracks"))
        => ( /\ returned'.op = "publishTracks"
             /\ returned'.status = "rejected"
             /\ calls' = calls
             /\ pcs' = pcs ) ]_vars

\* C19: subscribeTo appends to the current connection exactly one
\* receive-only slot per track name, in order, of kind video when the name
\* begins with "video" and of kind audio otherwise, and creates no connection.
C19_OneRecvOnlySlotPerName ==
    [][ \A c \in Calls :
          ( /\ ~Pending(c)
            /\ invoked' = invoked + 1
            /\ calls'[c].op = "subscribeTo" )
          => LET names == calls'[c].trackNames
                 old   == pcs[pcRef].transceivers
                 new   == pcs'[pcRef].transceivers
             IN  /\ calls'[c].pc = pcRef
                 /\ Len(pcs') = Len(pcs)
                 /\ Len(new) = Len(old) + Len(names)
                 /\ SubSeq(new, 1, Len(old)) = old
                 /\ \A i \in 1..Len(names) :
                       /\ new[Len(old) + i].direction = "recvonly"
                       /\ new[Len(old) + i].kind =
                             IF /\ Len(names[i]) >= 5
                                /\ SubSeq(names[i], 1, 5) = <<"v","i","d","e","o">>
                             THEN <<"v","i","d","e","o">>
                             ELSE <<"a","u","d","i","o">> ]_vars

C19_Witness ==
    \E c \in Calls :
        /\ At(c, "subscribeTo", "createOffer")
        /\ calls[c].trackNames[3] = <<"c","a","m">>
        /\ LET t == pcs[calls[c].pc].transceivers
           IN  /\ Len(t) = Len(CaptureKinds) + 4
               /\ t[3].kind = VIDEO /\ t[4].kind = AUDIO
               /\ t[5].kind = AUDIO /\ t[6].kind = VIDEO
               /\ \A i \in 3..6 : t[i].direction = "recvonly"

\* C20: the track list of a subscribe request has one entry per
\* caller-supplied name, in the caller's order, repeated names included, each
\* paired with the caller-supplied remote session id.
C20_SubscribeRequestEchoesNames ==
    \A c \in Calls :
        At(c, "subscribeTo", "subscribe") =>
            /\ Len(calls[c].req) = Len(calls[c].trackNames)
            /\ \A i \in 1..Len(calls[c].trackNames) :
                  /\ calls[c].req[i].trackName = calls[c].trackNames[i]
                  /\ calls[c].req[i].sessionId = calls[c].remoteSessionId

C20_Witness ==
    \E c \in Calls :
        /\ At(c, "subscribeTo", "subscribe")
        /\ Len(calls[c].req) = 4
        /\ calls[c].req[1].trackName = calls[c].req[4].trackName
        /\ calls[c].req[3].trackName = <<"c","a","m">>
        /\ calls[c].req[1].sessionId = "s2"

\* C24: the log holds at most 100 entries, and they are the most recent
\* min(n, 100) of the n entries appended, in the order of their appends.
C24_LogKeepsLast100 ==
    /\ Len(logs) <= 100
    /\ Len(logs) = IF Appended < 100 THEN Appended ELSE 100
    /\ \A i \in 1..Len(logs) : logs[i].time = Appended - Len(logs) + i

\* three appends to a full log dropped the three oldest entries
C24_Witness ==
    /\ Len(logs) = 100
    /\ logs[1].time = 4
    /\ logs[100].time = 103

C23_TrackEventOnlyTouchesMap ==
    [][ (calls' = calls /\ invoked' = invoked)
        => ( /\ state' = [state EXCEPT !.remoteStreams = state'.remoteStreams]
             /\ pcRef' = pcRef /\ pcs' = pcs
             /\ iceServersRef' = iceServersRef /\ localStreamRef' = localStreamRef
             /\ streams' = streams ) ]_vars

\* an event was handled while the only call so far, a publishTracks, is
\* between its answer and its settling
C23_Witness ==
    /\ invoked = 1
    /\ state.remoteStreams # {}
    /\ \E c \in Calls : RoundPending(c) /\ calls[c].op = "publishTracks"

\* a step of a subscribeTo call: its invocation or one of its continuations
SubscribeStep ==
    \/ InvokedOp("subscribeTo")
    \/ /\ invoked' = invoked
       /\ \E c \in Calls :
             Pending(c) /\ calls[c].op = "subscribeTo" /\ calls'[c] # calls[c]

\* C21: no step of a subscribeTo call, failing or not, creates, replaces or
\* closes a connection or changes sessionId, iceServers or localStream.
C21_SubscribeKeepsConnection ==
    [][ SubscribeStep
        => ( /\ pcRef' = pcRef
             /\ Len(pcs') = Len(pcs)
             /\ \A p \in 1..Len(pcs) : pcs'[p].closeCalls = pcs[p].closeCalls
             /\ state'.sessionId = state.sessionId
             /\ state'.iceServers = state.iceServers
             /\ state'.localStream = state.localStream
             /\ localStreamRef' = localStreamRef ) ]_vars

\* a subscribeTo resolved on a Published session, which is still Published
C21_Witness ==
    /\ returned.op = "subscribeTo"
    /\ returned.status = "resolved"
    /\ state.localStream # 0
    /\ pcRef # 0
    /\ pcs[pcRef].closeCalls = 0

\* the backend requests each operation may send
RequestsOf(op) ==
    CASE op = "join" -> {"joinRoom"}
      [] op = "publishTracks" -> {"publish", "renegotiate"}
      [] op = "subscribeTo" -> {"subscribe", "renegotiate"}
      [] op = "leave" -> {"leaveRoom"}
      [] OTHER -> {}

SentOnce(op, requests) ==
    /\ \A i \in 1..Len(requests) : requests[i] \in RequestsOf(op)
    /\ \A i, j \in 1..Len(requests) : requests[i] = requests[j] => i = j

\* C25: a call sends each backend request of its operation at most once,
\* whether the request succeeds or fails.
C25_NoRetry ==
    /\ \A c \in Calls : SentOnce(calls[c].op, calls[c].requests)
    /\ SentOnce(returned.op, returned.requests)

\* a renegotiate request failed and was not sent again
C25_Witness ==
    /\ returned.op = "publishTracks"
    /\ returned.status = "rejected"
    /\ returned.err = "TransportError"
    /\ returned.requests = <<"publish", "renegotiate">>

\* the error that the promise a call is suspended on rejects with
ErrorAt(at) ==
    CASE at = "getUserMedia" -> "MediaError"
      [] at \in {"joinRoom", "publish", "subscribe", "renegotiate"} -> "TransportError"
      [] OTHER -> "PcError"

\* C26: a join, publishTracks or subscribeTo in which an error occurred
\* rejects with that error, and its catch block has logged the failure.
C26_LoggedThenRethrown ==
    [][ (returned'.op \in {"join", "publishTracks", "subscribeTo"} /\ returned'.err # "")
        => ( /\ returned'.status = "rejected"
             /\ returned'.logged = CatchLog(returned'.op)
             /\ \A c \in Calls :
                   (Pending(c) /\ ~(calls'[c].status = "pending"))
                       => returned'.err = ErrorAt(calls[c].at)
             /\ (\A c \in Calls : Pending(c) => calls'[c].status = "pending")
                   => returned'.err = "NoPeerConnection" ) ]_vars

C26_Witness ==
    /\ returned.op = "subscribeTo"
    /\ returned.status = "rejected"
    /\ returned.err = "TransportError"
    /\ returned.logged = "Subscribe failed"

\* C27: every binding of a publish request, one per transceiver of the
\* connection, has the trackName "{kind}-{mid}" of its own kind and mid.
C27_TrackNameFromKindAndMid ==
    \A c \in Calls :
        At(c, "publishTracks", "publish") =>
            \A i \in 1..Len(calls[c].req) :
                calls[c].req[i].trackName =
                    calls[c].req[i].kind \o DASH \o calls[c].req[i].mid

\* C28: in the scenario the session has sessionId s1 and the one default ICE
\* entry from the return of join to the return of leave, is Published (local
\* stream set, connection open) from the return of publishTracks to the
\* invocation of leave, and is Idle with an empty remote-stream map when
\* leave has returned.
C28_ScenarioPhases ==
    /\ ((invoked = 1 /\ Quiet) \/ invoked \in {2, 3} \/ (invoked = 4 /\ ~Quiet))
          => /\ state.sessionId = "s1"
             /\ Len(state.iceServers) = 1
             /\ state.iceServers[1] = "stun:stun.cloudflare.com:3478"
    /\ ((invoked = 2 /\ Quiet) \/ invoked = 3)
          => /\ state.localStream # 0
             /\ pcRef = 1
             /\ pcs[pcRef].closeCalls = 0
    /\ (invoked = 4 /\ Quiet)
          => /\ state.sessionId = ""
             /\ state.iceServers = <<>>
             /\ state.localStream = 0
             /\ state.remoteStreams = {}
             /\ pcRef = 0

\* the scenario ran to its end, with a remote stream received on the way
C28_Witness ==
    /\ invoked = 4
    /\ Quiet
    /\ returned.op = "leave"
    /\ Len(pcs) = 1
    /\ pcs[1].closeCalls = 1
    /\ AllStopped(1)
    /\ state = InitialState

\* C29: while the backend request of a leave is in flight, and when the leave
\* has returned, the stream the leave found stored is stopped and the
\* connection it found is closed and no longer referenced.
C29_TeardownBeforeLeaveRequest ==
    LET TornDown(call) ==
            /\ call.stream # 0 => AllStopped(call.stream)
            /\ call.closedPc # 0 =>
                  (pcs[call.closedPc].closeCalls >= 1 /\ pcRef # call.closedPc)
    IN  /\ \A c \in Calls : At(c, "leave", "leaveRoom") => TornDown(calls[c])
        /\ returned.op = "leave" => TornDown(returned)

\* the backend request failed; the teardown had been done
C29_Witness ==
    /\ returned.op = "leave"
    /\ returned.err = "TransportError"
    /\ returned.stream # 0
    /\ returned.closedPc # 0
    /\ AllStopped(returned.stream)
    /\ pcs[returned.closedPc].closeCalls = 1

\* C30: a connection is constructed with a non-empty ICE list, and while
\* sessionId is set with the iceServers of the session state.
C30_IceServersAtCreatePC ==
    [][ Len(pcs') = Len(pcs) + 1
        => ( /\ pcs'[Len(pcs')].iceServers # <<>>
             /\ state.sessionId # "" =>
                   pcs'[Len(pcs')].iceServers = state.iceServers ) ]_vars

\* C32: pcRef.current is null or a connection on which close has not been
\* invoked.
C32_PcRefNullOrUnclosed ==
    pcRef = 0 \/ (pcRef \in 1..Len(pcs) /\ pcs[pcRef].closeCalls = 0)

\* publishTracks twice, then leave: createPC replaced the first connection,
\* leave closed the second and nulled the reference
C32_Witness ==
    /\ invoked = 3
    /\ pcRef = 0
    /\ Len(pcs) = 2
    /\ pcs[1].closeCalls = 1
    /\ pcs[2].closeCalls = 1
    /\ \E c \in Calls : At(c, "leave", "leaveRoom")

\* the step in which call c hands an answer to pc.setRemoteDescription
AppliesRemote(c) ==
    /\ Pending(c)
    /\ calls[c].op \in NegotiationOps
    /\ calls'[c].status = "pending"
    /\ calls'[c].at \in {"setRemoteDescription", "reSetRemoteDescription"}
    /\ calls'[c].at # calls[c].at

\* C33: the connection a publishTracks or subscribeTo continuation hands an
\* answer (or renegotiation answer) to is the one pcRef holds, and is not
\* closed.
C33_RemoteAppliedToCurrent ==
    [][ \A c \in Calls :
          AppliesRemote(c)
              => /\ calls'[c].pc = pcRef'
                 /\ pcs'[calls'[c].pc].closeCalls = 0 ]_vars

\* C34: when no call is in flight, a local stream exposed in the session
\* state has no stopped track, and pcRef holds an unclosed connection.
C34_ExposedStreamIsLive ==
    (Quiet /\ state.localStream # 0)
        => /\ \A i \in 1..Len(streams[state.localStream].stopped) :
                 ~streams[state.localStream].stopped[i]
           /\ pcRef # 0
           /\ pcs[pcRef].closeCalls = 0

\* C35: when a subscribeTo that added its receive-only slots rejects, the
\* receive-only slots of its connection are those the connection had when
\* the call was invoked.
C35_FailedSubscribeRestoresSlots ==
    [][ \A c \in Calls :
          ( /\ Pending(c)
            /\ calls[c].op = "subscribeTo"
            /\ calls'[c].status # "pending"
            /\ returned'.status = "rejected"
            /\ pcs'[calls[c].pc].closeCalls = 0 )
          => RecvOnly(pcs'[calls[c].pc]) = calls[c].recvOnlyBefore ]_vars

\* C31: a suspended call can always be resumed, whatever the other calls are
\* doing, and every invoked call eventually settles.
C31_EveryCallSettles ==
    /\ [](\A c \in Calls : Pending(c) => ENABLED CallStep(c))
    /\ \A c \in Calls : Pending(c) ~> ~Pending(c)

\* a subscribeTo ran through its renegotiation and resolved while the
\* publishTracks invoked before it is still waiting for its offer
C31_Witness ==
    /\ returned.op = "subscribeTo"
    /\ returned.status = "resolved"
    /\ returned.re = "applied"
    /\ \E c \in Calls : At(c, "publishTracks", "createOffer")

====
